---- MODULE Spec2Model ----
(***************************************************************************)
(* ResumePolish (src/app.py): text extraction, resume analysis, the score  *)
(* of the Analysis Results page, the recommendation rules of the Tips &    *)
(* Suggestions page and the per-session cache st.session_state.            *)
(*                                                                         *)
(* A Python str is modelled as a sequence of one-character strings, so     *)
(* that len, strip, split, lower, title, join, format and the regular      *)
(* expressions of the code are computed character by character.            *)
(***************************************************************************)
EXTENDS Integers, Sequences, FiniteSets, TLC

\* ------------------------------------------------------------------------
\* Characters and the str methods the code uses
\* ------------------------------------------------------------------------

LowerLetters == <<"a","b","c","d","e","f","g","h","i","j","k","l","m","n","o","p","q","r","s","t","u","v","w","x","y","z">>

UpperLetters == <<"A","B","C","D","E","F","G","H","I","J","K","L","M","N","O","P","Q","R","S","T","U","V","W","X","Y","Z">>

DigitChars == <<"0","1","2","3","4","5","6","7","8","9">>

\* str.isspace(): the whitespace str.strip() and str.split() remove
Whitespace == {" ", "\n", "\t"}

Letters == {LowerLetters[i] : i \in 1..26} \cup {UpperLetters[i] : i \in 1..26}

Digits == {DigitChars[i] : i \in 1..10}

\* \w of the re module
WordChars == Letters \cup Digits \cup {"_"}

lower_char(c) ==
    IF \E i \in 1..26 : UpperLetters[i] = c
    THEN LowerLetters[CHOOSE i \in 1..26 : UpperLetters[i] = c]
    ELSE c

upper_char(c) ==
    IF \E i \in 1..26 : LowerLetters[i] = c
    THEN UpperLetters[CHOOSE i \in 1..26 : LowerLetters[i] = c]
    ELSE c

\* str.lower()
lower(s) == [i \in 1..Len(s) |-> lower_char(s[i])]

\* str.title(): a letter that follows a non-letter is upper-cased, every
\* other letter is lower-cased
title(s) ==
    [i \in 1..Len(s) |->
        IF i = 1 \/ s[i-1] \notin Letters THEN upper_char(s[i]) ELSE lower_char(s[i])]

\* str.strip()
strip(s) ==
    LET keep == {i \in 1..Len(s) : s[i] \notin Whitespace}
    IN  IF keep = {} THEN <<>>
        ELSE LET first == CHOOSE i \in keep : \A j \in keep : i <= j
                 last  == CHOOSE i \in keep : \A j \in keep : j <= i
             IN  SubSeq(s, first, last)

\* len(s.split()): the number of maximal runs of non-whitespace characters
split_count(s) ==
    Cardinality({i \in 1..Len(s) :
        s[i] \notin Whitespace /\ (i = 1 \/ s[i-1] \in Whitespace)})

\* ------------------------------------------------------------------------
\* Regular-expression searches of analyze_resume
\* ------------------------------------------------------------------------

\* \b at the gap in front of position i of s (1 <= i <= Len(s) + 1)
word_boundary(s, i) ==
    LET before == i > 1 /\ s[i-1] \in WordChars
        after  == i <= Len(s) /\ s[i] \in WordChars
    IN  before # after

\* the literal pat occurs in s at position i
matches_at(s, pat, i) ==
    /\ i >= 1
    /\ i + Len(pat) - 1 <= Len(s)
    /\ \A k \in 1..Len(pat) : s[i+k-1] = pat[k]

\* bool(re.search(rf'\b{pat}\b', s)) for a literal pat
search_word(pat, s) ==
    \E i \in 1..(Len(s) - Len(pat) + 1) :
        /\ matches_at(s, pat, i)
        /\ word_boundary(s, i)
        /\ word_boundary(s, i + Len(pat))

\* [A-Za-z0-9._%+-]
EmailLocalChars == Letters \cup Digits \cup {".", "_", "%", "+", "-"}

\* [A-Za-z0-9.-]
EmailDomainChars == Letters \cup Digits \cup {".", "-"}

\* [A-Z|a-z]
EmailTldChars == Letters \cup {"|"}

\* bool(re.search(email_pattern, s)):
\* \b[A-Za-z0-9._%+-]+@[A-Za-z0-9.-]+\.[A-Z|a-z]{2,}\b
search_email(s) ==
    \E a \in 1..Len(s) :
        /\ s[a] = "@"
        /\ \E b \in 1..(a-1) :
              /\ \A k \in b..(a-1) : s[k] \in EmailLocalChars
              /\ word_boundary(s, b)
        /\ \E p \in (a+2)..Len(s) :
              /\ s[p] = "."
              /\ \A k \in (a+1)..(p-1) : s[k] \in EmailDomainChars
              /\ \E e \in (p+2)..Len(s) :
                    /\ \A k \in (p+1)..e : s[k] \in EmailTldChars
                    /\ word_boundary(s, e + 1)

\* [-.\s]
PhoneSeparators == {"-", "."} \cup Whitespace

\* the positions after an optional character of set cs at position i
after_optional(s, i, cs) ==
    {i} \cup (IF i <= Len(s) /\ s[i] \in cs THEN {i + 1} ELSE {})

\* \d{n} at position i
digits_at(s, i, n) ==
    /\ i + n - 1 <= Len(s)
    /\ \A k \in 0..(n-1) : s[i+k] \in Digits

\* bool(re.search(phone_pattern, s)):
\* (\+?\d{1,3}[-.\s]?)?\(?\d{3}\)?[-.\s]?\d{3}[-.\s]?\d{4}
\* The leading group is optional, so a match exists exactly when the rest
\* of the pattern matches at some position.
search_phone(s) ==
    \E i \in 1..Len(s) :
        \E a \in after_optional(s, i, {"("}) :
            /\ digits_at(s, a, 3)
            /\ \E b \in after_optional(s, a + 3, {")"}) :
                  \E c \in after_optional(s, b, PhoneSeparators) :
                      /\ digits_at(s, c, 3)
                      /\ \E d \in after_optional(s, c + 3, PhoneSeparators) :
                            digits_at(s, d, 4)

linkedin_prefix == <<"l","i","n","k","e","d","i","n",".","c","o","m","/","i","n","/">>

\* bool(re.search(r'linkedin\.com/in/[A-Za-z0-9-]+', s))
search_linkedin(s) ==
    \E i \in 1..Len(s) :
        /\ matches_at(s, linkedin_prefix, i)
        /\ i + Len(linkedin_prefix) <= Len(s)
        /\ s[i + Len(linkedin_prefix)] \in Letters \cup Digits \cup {"-"}

\* [.!?]
SentenceEnders == {".", "!", "?"}

\* position i holds the first non-whitespace character of a segment of
\* re.split(r'[.!?]+', s): every earlier character is whitespace or is
\* cut off from i by an ender
starts_sentence(s, i) ==
    /\ s[i] \notin SentenceEnders \cup Whitespace
    /\ \A j \in 1..(i-1) :
          s[j] \in Whitespace \/ \E k \in j..(i-1) : s[k] \in SentenceEnders

\* len([s for s in re.split(r'[.!?]+', text) if s.strip()]): the segments
\* between runs of enders that hold a non-whitespace character
sentence_count(s) == Cardinality({i \in 1..Len(s) : starts_sentence(s, i)})

\* ------------------------------------------------------------------------
\* sia.polarity_scores: the VADER engine is outside the repository.  It is
\* a deterministic, case-insensitive function of the text; here it is a
\* two-word lexicon.  Scores are in units of 1/10000.
\* ------------------------------------------------------------------------

PositiveWord == <<"g","r","e","a","t">>

NegativeWord == <<"p","o","o","r">>

polarity_scores(text) ==
    LET low == lower(text)
        p   == search_word(PositiveWord, low)
        n   == search_word(NegativeWord, low)
    IN  IF p /\ ~n THEN [compound |-> 6249, pos |-> 5000, neg |-> 0, neu |-> 5000]
        ELSE IF n /\ ~p THEN [compound |-> -4767, pos |-> 0, neg |-> 5000, neu |-> 5000]
        ELSE IF p /\ n THEN [compound |-> 2263, pos |-> 3300, neg |-> 2700, neu |-> 4000]
        ELSE [compound |-> 0, pos |-> 0, neg |-> 0, neu |-> IF text = <<>> THEN 0 ELSE 10000]

\* ------------------------------------------------------------------------
\* analyze_resume
\* ------------------------------------------------------------------------

skills_keywords ==
    << <<"p","y","t","h","o","n">>,
       <<"j","a","v","a">>,
       <<"j","a","v","a","s","c","r","i","p","t">>,
       <<"s","q","l">>,
       <<"h","t","m","l">>,
       <<"c","s","s">>,
       <<"r","e","a","c","t">>,
       <<"n","o","d","e">>,
       <<"m","a","c","h","i","n","e"," ","l","e","a","r","n","i","n","g">>,
       <<"d","a","t","a"," ","a","n","a","l","y","s","i","s">>,
       <<"p","r","o","j","e","c","t"," ","m","a","n","a","g","e","m","e","n","t">>,
       <<"a","g","i","l","e">>,
       <<"c","o","m","m","u","n","i","c","a","t","i","o","n">>,
       <<"l","e","a","d","e","r","s","h","i","p">>,
       <<"t","e","a","m","w","o","r","k">>,
       <<"p","r","o","b","l","e","m"," ","s","o","l","v","i","n","g">>,
       <<"e","x","c","e","l">>,
       <<"w","o","r","d">>,
       <<"p","o","w","e","r","p","o","i","n","t">>,
       <<"m","a","n","a","g","e","m","e","n","t">>,
       <<"d","e","v","e","l","o","p","m","e","n","t">>,
       <<"p","r","o","g","r","a","m","m","i","n","g">>,
       <<"c","o","d","i","n","g">>,
       <<"d","e","s","i","g","n">>,
       <<"a","n","a","l","y","s","i","s">>,
       <<"r","e","s","e","a","r","c","h">>,
       <<"d","a","t","a","b","a","s","e">>,
       <<"a","p","i">>,
       <<"w","e","b">>,
       <<"s","o","f","t","w","a","r","e">>,
       <<"t","e","c","h","n","i","c","a","l">>,
       <<"c","l","o","u","d">> >>

sections ==
    << <<"e","x","p","e","r","i","e","n","c","e">>,
       <<"e","d","u","c","a","t","i","o","n">>,
       <<"s","k","i","l","l","s">>,
       <<"p","r","o","j","e","c","t","s">>,
       <<"c","e","r","t","i","f","i","c","a","t","i","o","n","s">>,
       <<"s","u","m","m","a","r","y">>,
       <<"o","b","j","e","c","t","i","v","e">>,
       <<"c","o","n","t","a","c","t">> >>

action_verbs ==
    << <<"m","a","n","a","g","e","d">>,
       <<"d","e","v","e","l","o","p","e","d">>,
       <<"c","r","e","a","t","e","d">>,
       <<"i","m","p","l","e","m","e","n","t","e","d">>,
       <<"l","e","d">>,
       <<"i","m","p","r","o","v","e","d">>,
       <<"i","n","c","r","e","a","s","e","d">>,
       <<"r","e","d","u","c","e","d">>,
       <<"a","c","h","i","e","v","e","d">>,
       <<"b","u","i","l","t">>,
       <<"d","e","s","i","g","n","e","d">>,
       <<"c","o","o","r","d","i","n","a","t","e","d">> >>

\* mutant of found_in: the entries are appended as they are in the list
found_in_untitled(ref, text) ==
    LET low == lower(text)
    IN  SelectSeq(ref, LAMBDA x : search_word(x, low))

\* [x.title() for x in ref if re.search(rf'\b{x}\b', text.lower())]
found_in(ref, text) ==
    LET low  == lower(text)
        hits == SelectSeq(ref, LAMBDA x : search_word(x, low))
    IN  [i \in 1..Len(hits) |-> title(hits[i])]

analyze_resume(text) ==
    LET sentiment_scores == polarity_scores(text)
        found_keywords   == found_in(skills_keywords, text)
    IN  [ word_count     |-> split_count(text),
          char_count     |-> Len(text),
          sentence_count |-> sentence_count(text),
          sentiment      |-> sentiment_scores.compound,
          positive_score |-> sentiment_scores.pos,
          negative_score |-> sentiment_scores.neg,
          neutral_score  |-> sentiment_scores.neu,
          found_keywords |-> found_keywords,
          keyword_count  |-> Len(found_keywords),
          found_sections |-> found_in(sections, text),
          has_email      |-> search_email(text),
          has_phone      |-> search_phone(text),
          has_linkedin   |-> search_linkedin(lower(text)),
          action_verbs   |-> found_in(action_verbs, text) ]

\* ------------------------------------------------------------------------
\* Analysis Results page: the overall score
\* ------------------------------------------------------------------------

min(a, b) == IF a <= b THEN a ELSE b

\* mutant of word_count_score: no points outside 300..800 words
word_count_score_no_floor(analysis) ==
    IF 400 <= analysis.word_count /\ analysis.word_count <= 600 THEN 20
    ELSE IF \/ (300 <= analysis.word_count /\ analysis.word_count < 400)
            \/ (600 < analysis.word_count /\ analysis.word_count <= 800) THEN 15
    ELSE 0

\* mutant of word_count_score: 300 words fall outside the 15-point band
word_count_score_open_300(analysis) ==
    IF 400 <= analysis.word_count /\ analysis.word_count <= 600 THEN 20
    ELSE IF \/ (300 < analysis.word_count /\ analysis.word_count < 400)
            \/ (600 < analysis.word_count /\ analysis.word_count <= 800) THEN 15
    ELSE 5

\* Word count score (ideal: 400-600 words)
word_count_score(analysis) ==
    IF 400 <= analysis.word_count /\ analysis.word_count <= 600 THEN 20
    ELSE IF \/ (300 <= analysis.word_count /\ analysis.word_count < 400)
            \/ (600 < analysis.word_count /\ analysis.word_count <= 800) THEN 15
    ELSE 5

\* mutant of keywords_score: the cap of 20 is missing
keywords_score_uncapped(analysis) == analysis.keyword_count * 2

keywords_score(analysis) == min(analysis.keyword_count * 2, 20)

sections_score(analysis) == min(Len(analysis.found_sections) * 4, 20)

contact_score(analysis) ==
    LET s0 == 0
        s1 == IF analysis.has_email THEN s0 + 5 ELSE s0
        s2 == IF analysis.has_phone THEN s1 + 5 ELSE s1
        s3 == IF analysis.has_linkedin THEN s2 + 5 ELSE s2
    IN  s3

action_verbs_score(analysis) == min(Len(analysis.action_verbs) * 2, 10)

\* analysis['sentiment'] > 0.1 is compound > 1000 in units of 1/10000
sentiment_score(analysis) ==
    IF analysis.sentiment > 1000 THEN 10
    ELSE IF analysis.sentiment > 0 THEN 5
    ELSE 0

compute_score(analysis) ==
    LET a == 0 + word_count_score(analysis)
        b == a + keywords_score(analysis)
        c == b + sections_score(analysis)
        d == c + contact_score(analysis)
        e == d + action_verbs_score(analysis)
    IN  e + sentiment_score(analysis)

\* ------------------------------------------------------------------------
\* Tips & Suggestions page: the recommendation rules
\* ------------------------------------------------------------------------

\* mutant of format_int: only the last digit is written
format_int_last_digit(n) == <<DigitChars[(n % 10) + 1]>>

\* '{}'.format(n) for an int n >= 0
RECURSIVE format_int(_)
format_int(n) ==
    IF n < 10 THEN <<DigitChars[n + 1]>>
    ELSE format_int(n \div 10) \o <<DigitChars[(n % 10) + 1]>>

\* ', '.join(items)
RECURSIVE join(_)
join(items) ==
    IF Len(items) = 0 THEN <<>>
    ELSE IF Len(items) = 1 THEN items[1]
    ELSE items[1] \o <<",", " ">> \o join(Tail(items))

essential_sections ==
    << <<"E","x","p","e","r","i","e","n","c","e">>,
       <<"E","d","u","c","a","t","i","o","n">>,
       <<"S","k","i","l","l","s">> >>

\* x in items, for a list
in_list(x, items) == \E i \in 1..Len(items) : items[i] = x

\* A suggestion is the HTML block appended to suggestions: its CSS class,
\* its heading and the text substituted for {} (<<>> when it has none).
suggestion(class, heading, arg) == [class |-> class, heading |-> heading, arg |-> arg]

word_count_suggestions(analysis) ==
    IF analysis.word_count < 300
    THEN << suggestion("improvement-feedback", "Add More Content", <<>>) >>
    ELSE IF analysis.word_count > 800
    THEN << suggestion("improvement-feedback", "Reduce Length", <<>>) >>
    ELSE << suggestion("positive-feedback", "Good Length", <<>>) >>

\* mutant of keyword_suggestions: 5 keywords still count as too few
keyword_suggestions_le_5(analysis) ==
    IF analysis.keyword_count <= 5
    THEN << suggestion("improvement-feedback", "Add More Keywords",
                       format_int(analysis.keyword_count)) >>
    ELSE << suggestion("positive-feedback", "Good Keyword Usage",
                       format_int(analysis.keyword_count)) >>

keyword_suggestions(analysis) ==
    IF analysis.keyword_count < 5
    THEN << suggestion("improvement-feedback", "Add More Keywords",
                       format_int(analysis.keyword_count)) >>
    ELSE << suggestion("positive-feedback", "Good Keyword Usage",
                       format_int(analysis.keyword_count)) >>

missing_essential(analysis) ==
    SelectSeq(essential_sections, LAMBDA x : ~in_list(x, analysis.found_sections))

\* mutant of section_suggestions: a positive item when nothing is missing
section_suggestions_with_positive(analysis) ==
    IF missing_essential(analysis) # <<>>
    THEN << suggestion("improvement-feedback", "Add Essential Sections",
                       join(missing_essential(analysis))) >>
    ELSE << suggestion("positive-feedback", "Add Essential Sections", <<>>) >>

section_suggestions(analysis) ==
    IF missing_essential(analysis) # <<>>
    THEN << suggestion("improvement-feedback", "Add Essential Sections",
                       join(missing_essential(analysis))) >>
    ELSE <<>>

\* mutant of contact_missing: phone is checked before email
contact_missing_phone_first(analysis) ==
    LET m0 == <<>>
        m1 == IF ~analysis.has_phone THEN Append(m0, <<"p","h","o","n","e">>) ELSE m0
        m2 == IF ~analysis.has_email THEN Append(m1, <<"e","m","a","i","l">>) ELSE m1
        m3 == IF ~analysis.has_linkedin
              THEN Append(m2, <<"L","i","n","k","e","d","I","n">>) ELSE m2
    IN  m3

contact_missing(analysis) ==
    LET m0 == <<>>
        m1 == IF ~analysis.has_email THEN Append(m0, <<"e","m","a","i","l">>) ELSE m0
        m2 == IF ~analysis.has_phone THEN Append(m1, <<"p","h","o","n","e">>) ELSE m1
        m3 == IF ~analysis.has_linkedin
              THEN Append(m2, <<"L","i","n","k","e","d","I","n">>) ELSE m2
    IN  m3

contact_suggestions(analysis) ==
    IF contact_missing(analysis) # <<>>
    THEN << suggestion("improvement-feedback", "Add Contact Information",
                       join(contact_missing(analysis))) >>
    ELSE <<>>

action_verb_suggestions(analysis) ==
    IF Len(analysis.action_verbs) < 3
    THEN << suggestion("improvement-feedback", "Use More Action Verbs",
                       format_int(Len(analysis.action_verbs))) >>
    ELSE <<>>

\* mutant of build_suggestions: the contact rule runs before the section rule
build_suggestions_contact_first(analysis) ==
    word_count_suggestions(analysis)
        \o keyword_suggestions(analysis)
        \o contact_suggestions(analysis)
        \o section_suggestions(analysis)
        \o action_verb_suggestions(analysis)

\* the list suggestions after the five rules have run
build_suggestions(analysis) ==
    word_count_suggestions(analysis)
        \o keyword_suggestions(analysis)
        \o section_suggestions(analysis)
        \o contact_suggestions(analysis)
        \o action_verb_suggestions(analysis)

\* ------------------------------------------------------------------------
\* Uploaded files and extract_text_from_file
\* ------------------------------------------------------------------------

PDF == "application/pdf"

DOCX == "application/vnd.openxmlformats-officedocument.wordprocessingml.document"

\* something st.error / st.warning / st.success / st.markdown displayed
element(kind, body) == [kind |-> kind, body |-> body]

\* mutant of pdf_text: a page without text still ends a line
RECURSIVE pdf_text_every_page(_)
pdf_text_every_page(pages) ==
    IF pages = <<>> THEN <<>>
    ELSE Head(pages) \o <<"\n">> \o pdf_text_every_page(Tail(pages))

\* for page in pdf.pages: if page_text: text += page_text + "\n"
RECURSIVE pdf_text(_)
pdf_text(pages) ==
    IF pages = <<>> THEN <<>>
    ELSE (IF Head(pages) # <<>> THEN Head(pages) \o <<"\n">> ELSE <<>>)
            \o pdf_text(Tail(pages))

\* for paragraph in doc.paragraphs: if paragraph.text.strip(): text += paragraph.text + "\n"
RECURSIVE docx_text(_)
docx_text(paragraphs) ==
    IF paragraphs = <<>> THEN <<>>
    ELSE (IF strip(Head(paragraphs)) # <<>> THEN Head(paragraphs) \o <<"\n">> ELSE <<>>)
            \o docx_text(Tail(paragraphs))

\* The return value and the messages displayed.  A file the parser cannot
\* read (corrupt) raises inside the try block: st.error, return "".
extract_text_from_file(f) ==
    IF f.type = PDF
    THEN IF f.corrupt
         THEN [text |-> <<>>, shown |-> << element("error", "Error reading file") >>]
         ELSE [text |-> strip(pdf_text(f.parts)), shown |-> <<>>]
    ELSE IF f.type = DOCX
    THEN IF f.corrupt
         THEN [text |-> <<>>, shown |-> << element("error", "Error reading file") >>]
         ELSE [text |-> strip(docx_text(f.parts)), shown |-> <<>>]
    ELSE [text |-> strip(<<>>), shown |-> <<>>]

\* ------------------------------------------------------------------------
\* Inputs
\* ------------------------------------------------------------------------

\* the largest number of pages (paragraphs) of an uploaded document
MaxParts == 2

\* "a@b.io 555-123-4567 SQL!" (24 characters)
Text24 ==
    <<"a","@","b",".","i","o"," ","5","5","5","-","1","2","3","-","4","5","6","7",
      " ","S","Q","L","!">>

\* "linkedin.com/in/jo Skills" (25 characters)
Text25 ==
    <<"l","i","n","k","e","d","i","n",".","c","o","m","/","i","n","/","j","o",
      " ","S","k","i","l","l","s">>

\* "Summary. Led great Java projects; developed APIs. Skills" (56 characters)
LongText ==
    <<"S","u","m","m","a","r","y","."," ","L","e","d"," ","g","r","e","a","t"," ",
      "J","a","v","a"," ","p","r","o","j","e","c","t","s",";"," ","d","e","v","e",
      "l","o","p","e","d"," ","A","P","I","s","."," ","S","k","i","l","l","s">>

\* page / paragraph texts: none, blank, and two lines that together reach
\* 49, 50 or 51 characters
PartTexts == { <<>>, <<" ">>, Text24, Text25 }

RECURSIVE SeqsUpTo(_, _)
SeqsUpTo(S, n) ==
    IF n = 0 THEN { <<>> }
    ELSE LET shorter == SeqsUpTo(S, n - 1)
         IN  shorter \cup { Append(q, x) : q \in {r \in shorter : Len(r) = n - 1}, x \in S }

\* documents of up to MaxParts parts, and a one-part document that is long
\* enough on its own
Documents == SeqsUpTo(PartTexts, MaxParts) \cup { <<LongText>> }

file(name, type, corrupt, parts) ==
    [name |-> name, type |-> type, corrupt |-> corrupt, parts |-> parts]

\* readable and unreadable PDF and DOCX files, and files whose MIME type is
\* neither although their extension passed the uploader's filter
Files ==
    {file("resume.pdf", PDF, FALSE, d) : d \in Documents}
        \cup {file("resume.docx", DOCX, FALSE, d) : d \in Documents}
        \cup {file("broken.pdf", PDF, TRUE, <<>>), file("broken.docx", DOCX, TRUE, <<>>)}
        \cup {file("scan.pdf", "application/octet-stream", FALSE, d) :
                 d \in {x \in Documents : Len(x) <= 1}}

\* extract_text_from_file and analyze_resume are pure: their values on the
\* files above are tabulated once
extraction_of == [f \in Files |-> extract_text_from_file(f)]

analysis_of == [t \in {extraction_of[f].text : f \in Files} |-> analyze_resume(t)]

\* ------------------------------------------------------------------------
\* State
\* ------------------------------------------------------------------------

VARIABLES
    session,        \* st.session_state: a function on the keys that are set
    app_mode,       \* the sidebar selection of the last script run
    uploaded_file,  \* the file_uploader's value in the last run: <<>> or <<f>>
    local_text,     \* the last run's local resume_text: <<>> unbound, or <<t>>
    rendered,       \* what the last run displayed, in order
    calls           \* how often the last run called extraction and analysis

vars == <<session, app_mode, uploaded_file, local_text, rendered, calls>>

NoCalls == [extract |-> 0, analyze |-> 0]

\* st.session_state[key] = value
set_item(state, key, value) ==
    [k \in DOMAIN state \cup {key} |-> IF k = key THEN value ELSE state[k]]

EmptySession == [k \in {} |-> <<>>]

Init ==
    /\ session = EmptySession
    /\ app_mode = "Home"
    /\ uploaded_file = <<>>
    /\ local_text = <<>>
    /\ rendered = <<>>
    /\ calls = NoCalls

\* ------------------------------------------------------------------------
\* One script run per user interaction
\* ------------------------------------------------------------------------

ViewHome ==
    /\ app_mode' = "Home"
    /\ uploaded_file' = <<>>
    /\ local_text' = <<>>
    /\ rendered' = <<>>
    /\ calls' = NoCalls
    /\ UNCHANGED session

\* the Upload Resume page while the uploader holds no file
ViewUpload ==
    /\ app_mode' = "Upload Resume"
    /\ uploaded_file' = <<>>
    /\ local_text' = <<>>
    /\ rendered' = <<>>
    /\ calls' = NoCalls
    /\ UNCHANGED session

\* mutant of sufficient_text: 50 characters are enough
sufficient_text_ge_50(resume_text) ==
    resume_text # <<>> /\ Len(strip(resume_text)) >= 50

\* mutant of sufficient_text: the length is not checked
sufficient_text_nonempty(resume_text) == resume_text # <<>>

\* if resume_text and len(resume_text.strip()) > 50
sufficient_text(resume_text) ==
    resume_text # <<>> /\ Len(strip(resume_text)) > 50

\* mutant of store_results: the file name is set once and never replaced
store_results_keep_name(state, resume_text, analysis_results, name) ==
    set_item(set_item(set_item(state, "resume_text", resume_text),
                      "analysis_results", analysis_results),
             "uploaded_file_name",
             IF "uploaded_file_name" \in DOMAIN state
             THEN state["uploaded_file_name"] ELSE name)

\* mutant of store_results: resume_text is not stored
store_results_without_text(state, resume_text, analysis_results, name) ==
    set_item(set_item(state, "analysis_results", analysis_results),
             "uploaded_file_name", name)

\* the three assignments to st.session_state
store_results(state, resume_text, analysis_results, name) ==
    set_item(set_item(set_item(state, "resume_text", resume_text),
                      "analysis_results", analysis_results),
             "uploaded_file_name", name)

\* the Upload Resume page with a file in the uploader
UploadResume(f) ==
    LET extraction  == extraction_of[f]
        resume_text == extraction.text
    IN  /\ app_mode' = "Upload Resume"
        /\ uploaded_file' = <<f>>
        /\ local_text' = <<resume_text>>
        /\ IF sufficient_text(resume_text)
           THEN /\ session' = store_results(session, resume_text,
                                            analysis_of[resume_text], f.name)
                /\ rendered' = extraction.shown
                                 \o << element("success", "Resume analyzed successfully"),
                                       element("text_area", resume_text) >>
                /\ calls' = [extract |-> 1, analyze |-> 1]
           ELSE /\ session' = session
                /\ rendered' = extraction.shown
                                 \o << element("error", "Could not extract sufficient text") >>
                /\ calls' = [extract |-> 1, analyze |-> 0]

\* the Analysis Results page (the score; the charts are not modelled).
\* resume_text = st.session_state['resume_text'] raises KeyError, which
\* ends the run, when the key is not set.
ViewResults ==
    /\ app_mode' = "Analysis Results"
    /\ uploaded_file' = <<>>
    /\ calls' = NoCalls
    /\ IF "analysis_results" \notin DOMAIN session
       THEN /\ local_text' = <<>>
            /\ rendered' = << element("warning", "Please upload your resume first") >>
       ELSE IF "resume_text" \notin DOMAIN session
       THEN /\ local_text' = <<>>
            /\ rendered' = << element("exception", "KeyError: 'resume_text'") >>
       ELSE /\ local_text' = << session["resume_text"] >>
            /\ rendered' = << element("score", compute_score(session["analysis_results"])) >>
    /\ UNCHANGED session

\* for suggestion in suggestions: st.markdown(suggestion)
RECURSIVE display(_)
display(suggestions) ==
    IF suggestions = <<>> THEN <<>>
    ELSE << element("markdown", Head(suggestions)) >> \o display(Tail(suggestions))

\* the Tips & Suggestions page
ViewTips ==
    /\ app_mode' = "Tips & Suggestions"
    /\ uploaded_file' = <<>>
    /\ local_text' = <<>>
    /\ calls' = NoCalls
    /\ rendered' =
          IF "analysis_results" \notin DOMAIN session
          THEN << element("warning", "Please upload your resume first") >>
          ELSE display(build_suggestions(session["analysis_results"]))
    /\ UNCHANGED session

Next ==
    \/ ViewHome
    \/ ViewUpload
    \/ \E f \in Files : UploadResume(f)
    \/ ViewResults
    \/ ViewTips

Spec == Init /\ [][Next]_vars

\* ------------------------------------------------------------------------
\* Sessions that hold an arbitrary Metrics value
\* ------------------------------------------------------------------------

\* the largest word count tried
MaxWordCount == 5000

\* the thresholds of the word-count rules, their neighbours, and the ends
WordCounts == {0, 299, 300, 399, 400, 450, 600, 601, 800, 801, MaxWordCount}

\* the title-cased entries of ref whose index is in idx, in ref's order
RECURSIVE pick_upto(_, _, _)
pick_upto(ref, idx, n) ==
    IF n = 0 THEN <<>>
    ELSE IF n \in idx THEN Append(pick_upto(ref, idx, n - 1), title(ref[n]))
    ELSE pick_upto(ref, idx, n - 1)

pick(ref, idx) == pick_upto(ref, idx, Len(ref))

\* python, sql, leadership, teamwork, excel
ScenarioKeywords == {1, 4, 14, 15, 17}

KeywordLists ==
    {pick(skills_keywords, 1..n) : n \in {0, 4, 5, 10, 11, Len(skills_keywords)}}
        \cup {pick(skills_keywords, ScenarioKeywords)}

\* every combination of Experience, Education, Skills, with or without
\* the five other sections
SectionLists ==
    {pick(sections, e \cup t) : e \in SUBSET {1, 2, 3}, t \in {{}, 4..Len(sections)}}

VerbLists == {pick(action_verbs, 1..n) : n \in {0, 2, 3, Len(action_verbs)}}

\* compound in [-1, 1], in units of 1/10000
Compounds == {-10000, 0, 1, 1000, 1001, 10000}

metrics(wc, kws, secs, email, phone, linkedin, verbs, compound) ==
    [ word_count     |-> wc,
      char_count     |-> 6 * wc,
      sentence_count |-> wc \div 10,
      sentiment      |-> compound,
      positive_score |-> IF compound > 0 THEN 2000 ELSE 0,
      negative_score |-> IF compound < 0 THEN 2000 ELSE 0,
      neutral_score  |-> IF compound = 0 THEN 10000 ELSE 8000,
      found_keywords |-> kws,
      keyword_count  |-> Len(kws),
      found_sections |-> secs,
      has_email      |-> email,
      has_phone      |-> phone,
      has_linkedin   |-> linkedin,
      action_verbs   |-> verbs ]

\* the cached text of such a session is left open: no rule of the Analysis
\* Results score or of the Tips & Suggestions page reads it
SomeText == <<"...">>

\* the session after an upload whose analysis was m
InitMetrics ==
    /\ \E wc \in WordCounts, kws \in KeywordLists, secs \in SectionLists,
          email \in BOOLEAN, phone \in BOOLEAN, linkedin \in BOOLEAN,
          verbs \in VerbLists, compound \in Compounds :
            session = store_results(EmptySession, SomeText,
                          metrics(wc, kws, secs, email, phone, linkedin, verbs, compound),
                          "resume.pdf")
    /\ app_mode = "Upload Resume"
    /\ uploaded_file = <<>>
    /\ local_text = <<>>
    /\ rendered = <<>>
    /\ calls = NoCalls

NextMetrics ==
    \/ ViewResults
    \/ ViewTips

SpecMetrics == InitMetrics /\ [][NextMetrics]_vars

\* ------------------------------------------------------------------------
\* analyze_resume on arbitrary texts, followed by the two result pages
\* ------------------------------------------------------------------------

\* the largest number of words of a text tried
MaxTextWords == 2

\* words that meet the word-boundary rules: a keyword inside a longer
\* keyword, a verb inside a longer word, mixed case, trailing punctuation,
\* and the two halves of a two-word keyword
TextWords ==
    { <<"j","a","v","a">>,
      <<"j","a","v","a","s","c","r","i","p","t">>,
      <<"E","x","p","e","r","i","e","n","c","e">>,
      <<"s","k","i","l","l","s",".">>,
      <<"L","e","d">>,
      <<"m","i","s","l","e","d">>,
      <<"d","a","t","a">>,
      <<"a","n","a","l","y","s","i","s">> }

\* ' '.join(words)
RECURSIVE spaced(_)
spaced(words) ==
    IF Len(words) = 0 THEN <<>>
    ELSE IF Len(words) = 1 THEN words[1]
    ELSE words[1] \o <<" ">> \o spaced(Tail(words))

\* "Experience Education Skills Projects Certifications Summary"
SixSectionsText ==
        <<"E","x","p","e","r","i","e","n","c","e"," ","E","d","u","c","a","t","i","o",
      "n"," ","S","k","i","l","l","s"," ","P","r","o","j","e","c","t","s"," ","C",
      "e","r","t","i","f","i","c","a","t","i","o","n","s"," ","S","u","m","m","a",
      "r","y">>

\* the first twelve entries of skills_keywords, separated by blanks
ManyKeywordsText == spaced(SubSeq(skills_keywords, 1, 12))

\* the empty text, texts of up to MaxTextWords words, and the two above
AnalysisTexts ==
    {spaced(ws) : ws \in SeqsUpTo(TextWords, MaxTextWords)}
        \cup {SixSectionsText, ManyKeywordsText}

\* analyze_resume is pure: its values on AnalysisTexts are tabulated once
analysis_of_text == [t \in AnalysisTexts |-> analyze_resume(t)]

\* analysis_results = analyze_resume(resume_text) and the three session
\* writes, for a text t (without the upload page's length check)
AnalyzeText(t) ==
    /\ app_mode' = "Upload Resume"
    /\ uploaded_file' = <<>>
    /\ local_text' = <<t>>
    /\ session' = store_results(session, t, analysis_of_text[t], "resume.pdf")
    /\ rendered' = << element("success", "Resume analyzed successfully"),
                      element("text_area", t) >>
    /\ calls' = [extract |-> 0, analyze |-> 1]

NextAnalyze ==
    \/ \E t \in AnalysisTexts : AnalyzeText(t)
    \/ ViewResults
    \/ ViewTips

SpecAnalyze == Init /\ [][NextAnalyze]_vars

\* ------------------------------------------------------------------------
\* extract_text_from_file on readable documents, on its own
\* ------------------------------------------------------------------------

\* the largest number of pages (paragraphs) of a document given to the
\* extractor on its own
MaxExtractParts == 3

\* page / paragraph texts: none, blank, a word, a word inside whitespace
ExtractParts == { <<>>, <<" ">>, <<"a">>, <<" ", "b", " ">> }

ExtractFiles ==
    {file("resume.pdf", PDF, FALSE, d) : d \in SeqsUpTo(ExtractParts, MaxExtractParts)}
        \cup {file("resume.docx", DOCX, FALSE, d) :
                 d \in SeqsUpTo(ExtractParts, MaxExtractParts)}

\* resume_text = extract_text_from_file(uploaded_file), without the rest of
\* the upload page
ExtractText(f) ==
    LET extraction == extract_text_from_file(f)
    IN  /\ app_mode' = "Upload Resume"
        /\ uploaded_file' = <<f>>
        /\ local_text' = << extraction.text >>
        /\ rendered' = extraction.shown
        /\ calls' = [extract |-> 1, analyze |-> 0]
        /\ UNCHANGED session

NextExtract == \E f \in ExtractFiles : ExtractText(f)

SpecExtract == Init /\ [][NextExtract]_vars

\* ------------------------------------------------------------------------
\* Properties of the Analysis Results score (checked under SpecMetrics)
\* ------------------------------------------------------------------------

\* the last run was the Analysis Results page of a session with an analysis
ResultsShown == app_mode = "Analysis Results" /\ "analysis_results" \in DOMAIN session

\* the last run was the Tips & Suggestions page of a session with an analysis
TipsShown == app_mode = "Tips & Suggestions" /\ "analysis_results" \in DOMAIN session

\* the score the Analysis Results page displayed
ShownScore == rendered[1].body

\* C1: the score shown for any Metrics value is an integer in 0..95, the
\* sum of the per-factor maxima 20 + 20 + 20 + 15 + 10 + 10.
C1_ScoreInRange ==
    ResultsShown =>
        /\ Len(rendered) = 1
        /\ rendered[1].kind = "score"
        /\ ShownScore \in 0..(20 + 20 + 20 + 15 + 10 + 10)

\* the largest score is reached
C1_Witness == ResultsShown /\ ShownScore = 95

\* the six factors of the score table
TableWordCount(m) ==
    CASE m.word_count \in 400..600 -> 20
      [] m.word_count \in (300..399) \cup (601..800) -> 15
      [] OTHER -> 5

TableCapped(product, cap) == IF product > cap THEN cap ELSE product

TableContact(m) ==
    5 * Cardinality({k \in {"has_email", "has_phone", "has_linkedin"} : m[k]})

TableSentiment(m) ==
    CASE m.sentiment > 1000 -> 10
      [] m.sentiment > 0 /\ m.sentiment <= 1000 -> 5
      [] OTHER -> 0

TableScore(m) ==
    TableWordCount(m) + TableCapped(2 * m.keyword_count, 20)
        + TableCapped(4 * Len(m.found_sections), 20) + TableContact(m)
        + TableCapped(2 * Len(m.action_verbs), 10) + TableSentiment(m)

\* 450 words, the five keywords python, sql, leadership, teamwork, excel,
\* no sections, no contact information, no verbs, neutral sentiment
IsScenario30(m) ==
    /\ m.word_count = 450
    /\ m.found_keywords = pick(skills_keywords, ScenarioKeywords)
    /\ m.found_sections = <<>>
    /\ ~m.has_email /\ ~m.has_phone /\ ~m.has_linkedin
    /\ m.action_verbs = <<>>
    /\ m.sentiment = 0

\* C2: the score shown equals the sum of the six table factors, and the
\* 450-word, five-keyword scenario scores exactly 30.
C2_ScoreIsTableSum ==
    ResultsShown =>
        /\ ShownScore = TableScore(session["analysis_results"])
        /\ IsScenario30(session["analysis_results"]) => ShownScore = 30

C2_Witness == ResultsShown /\ IsScenario30(session["analysis_results"]) /\ ShownScore = 30

\* ------------------------------------------------------------------------
\* Properties of the recommendation list (checked under SpecMetrics)
\* ------------------------------------------------------------------------

\* the rule category of a displayed item, by its heading: 1 length,
\* 2 keywords, 3 essential sections, 4 contact, 5 action verbs
Category(item) ==
    CASE item.heading \in {"Add More Content", "Reduce Length", "Good Length"} -> 1
      [] item.heading \in {"Add More Keywords", "Good Keyword Usage"} -> 2
      [] item.heading = "Add Essential Sections" -> 3
      [] item.heading = "Add Contact Information" -> 4
      [] item.heading = "Use More Action Verbs" -> 5
      [] OTHER -> 0

IsImprovement(item) == item.class = "improvement-feedback"

IsPositive(item) == item.class = "positive-feedback"

\* the positions of the displayed items of category c
ItemsOf(c) ==
    {i \in 1..Len(rendered) :
        rendered[i].kind = "markdown" /\ Category(rendered[i].body) = c}

\* the displayed item of category c, when there is exactly one
ItemOf(c) == rendered[CHOOSE i \in ItemsOf(c) : TRUE].body

\* every displayed element is a recommendation of one of the five categories
OnlyRuleItems ==
    \A i \in 1..Len(rendered) :
        /\ rendered[i].kind = "markdown"
        /\ Category(rendered[i].body) \in 1..5
        /\ IsImprovement(rendered[i].body) # IsPositive(rendered[i].body)

\* C7 as stated: each of the five rule categories contributes exactly one
\* item, positive or improvement.
C7_ExactlyOnePerCategory ==
    TipsShown =>
        /\ OnlyRuleItems
        /\ \A c \in 1..5 : Cardinality(ItemsOf(c)) = 1

AllEssentialPresent(m) ==
    \A i \in 1..3 : \E j \in 1..Len(m.found_sections) :
        m.found_sections[j] = title(sections[i])

AllContactPresent(m) == m.has_email /\ m.has_phone /\ m.has_linkedin

\* C7 amended: the length and keyword rules contribute exactly one item
\* each (positive or improvement); the essential-sections, contact and
\* action-verb rules contribute one improvement item when something is
\* missing (fewer than 3 verbs) and no item otherwise.
C7_OnePerSymmetricRule ==
    TipsShown =>
        LET m == session["analysis_results"]
        IN  /\ OnlyRuleItems
            /\ Cardinality(ItemsOf(1)) = 1
            /\ Cardinality(ItemsOf(2)) = 1
            /\ Cardinality(ItemsOf(3)) = IF AllEssentialPresent(m) THEN 0 ELSE 1
            /\ Cardinality(ItemsOf(4)) = IF AllContactPresent(m) THEN 0 ELSE 1
            /\ Cardinality(ItemsOf(5)) = IF Len(m.action_verbs) >= 3 THEN 0 ELSE 1
            /\ \A c \in 3..5 : \A i \in ItemsOf(c) : IsImprovement(rendered[i].body)

\* a resume with nothing missing gets two items, not five
C7_Witness ==
    /\ TipsShown
    /\ Len(rendered) = 2
    /\ AllEssentialPresent(session["analysis_results"])
    /\ AllContactPresent(session["analysis_results"])

\* C8: the displayed items are in the order length, keywords, essential
\* sections, contact, action verbs, with at most one item per category:
\* the categories of successive items strictly increase.
C8_FixedOrder ==
    TipsShown =>
        /\ OnlyRuleItems
        /\ \A i \in 1..Len(rendered), j \in 1..Len(rendered) :
              i < j => Category(rendered[i].body) < Category(rendered[j].body)

C8_Witness ==
    /\ TipsShown
    /\ Len(rendered) = 5
    /\ \A c \in 1..5 : Category(rendered[c].body) = c

\* C9: length rule: improvement "Add More Content" below 300 words,
\* improvement "Reduce Length" above 800, positive from 300 to 800;
\* keyword rule: improvement below 5 keywords, positive from 5 on.
C9_LengthAndKeywordRules ==
    TipsShown =>
        LET m == session["analysis_results"]
        IN  /\ Cardinality(ItemsOf(1)) = 1
            /\ Cardinality(ItemsOf(2)) = 1
            /\ m.word_count < 300 =>
                  IsImprovement(ItemOf(1)) /\ ItemOf(1).heading = "Add More Content"
            /\ m.word_count > 800 =>
                  IsImprovement(ItemOf(1)) /\ ItemOf(1).heading = "Reduce Length"
            /\ m.word_count \in 300..800 =>
                  IsPositive(ItemOf(1)) /\ ItemOf(1).heading = "Good Length"
            /\ m.keyword_count < 5 =>
                  IsImprovement(ItemOf(2)) /\ ItemOf(2).heading = "Add More Keywords"
            /\ m.keyword_count >= 5 =>
                  IsPositive(ItemOf(2)) /\ ItemOf(2).heading = "Good Keyword Usage"

\* both rules at their inclusive boundary: 800 words, 5 keywords
C9_Witness ==
    /\ TipsShown
    /\ session["analysis_results"].word_count = 800
    /\ session["analysis_results"].keyword_count = 5
    /\ IsPositive(rendered[1].body)
    /\ IsPositive(rendered[2].body)

\* the names of ref (title-cased section names, or contact names) for
\* which absent holds, in ref's order, joined by ", "
ExpectedList(ref, absent(_)) ==
    LET part(i) == IF absent(i) THEN <<ref[i]>> ELSE <<>>
    IN  join(part(1) \o part(2) \o part(3))

ContactNames ==
    << <<"e","m","a","i","l">>, <<"p","h","o","n","e">>,
       <<"L","i","n","k","e","d","I","n">> >>

\* C10: an essential-sections item is shown iff one of Experience,
\* Education, Skills is absent, and lists exactly the absent ones in that
\* order; a contact item is shown iff one of email, phone, LinkedIn is
\* missing, and lists exactly the missing ones in that order; an
\* action-verb item is shown iff fewer than 3 verbs were found; none of
\* the three is ever positive.
C10_AsymmetricRules ==
    TipsShown =>
        LET m == session["analysis_results"]
            has(x) == \E j \in 1..Len(m.found_sections) : m.found_sections[j] = x
            noSection(i) == ~has(title(sections[i]))
            flags == <<m.has_email, m.has_phone, m.has_linkedin>>
            noContact(i) == ~flags[i]
            titled == [i \in 1..3 |-> title(sections[i])]
        IN  /\ \A c \in 3..5 : Cardinality(ItemsOf(c)) <= 1
            /\ \A c \in 3..5 : \A i \in ItemsOf(c) : IsImprovement(rendered[i].body)
            /\ (ItemsOf(3) # {}) = (\E i \in 1..3 : noSection(i))
            /\ ItemsOf(3) # {} => ItemOf(3).arg = ExpectedList(titled, noSection)
            /\ (ItemsOf(4) # {}) = (\E i \in 1..3 : noContact(i))
            /\ ItemsOf(4) # {} => ItemOf(4).arg = ExpectedList(ContactNames, noContact)
            /\ (ItemsOf(5) # {}) = (Len(m.action_verbs) < 3)

\* Education and phone present, the rest missing, two verbs
C10_Witness ==
    /\ TipsShown
    /\ session["analysis_results"].found_sections = <<title(sections[2])>>
    /\ session["analysis_results"].has_phone
    /\ ~session["analysis_results"].has_email
    /\ ~session["analysis_results"].has_linkedin
    /\ Len(session["analysis_results"].action_verbs) = 2
    /\ ItemsOf(3) # {} /\ ItemsOf(4) # {} /\ ItemsOf(5) # {}
    /\ ItemOf(3).arg = <<"E","x","p","e","r","i","e","n","c","e",","," ","S","k","i","l","l","s">>
    /\ ItemOf(4).arg = <<"e","m","a","i","l",","," ","L","i","n","k","e","d","I","n">>

\* ------------------------------------------------------------------------
\* Properties of the upload action and the session cache (checked under Spec)
\* ------------------------------------------------------------------------

Supported(f) == f.type \in {PDF, DOCX}

\* the last run was an upload of file f
Uploaded(f) == uploaded_file = <<f>>

\* the text extract_text_from_file returned in the last run
ExtractedText == extraction_of[uploaded_file[1]].text

\* the last run showed the error message msg
ErrorShown(msg) ==
    \E i \in 1..Len(rendered) : rendered[i] = element("error", msg)

\* the last run analysed the extracted text and cached it
AnalysedAndCached ==
    /\ calls.analyze = 1
    /\ DOMAIN session = {"resume_text", "analysis_results", "uploaded_file_name"}
    /\ session["resume_text"] = ExtractedText
    /\ session["uploaded_file_name"] = uploaded_file[1].name

\* the last run rejected the extracted text as insufficient
RejectedAsInsufficient ==
    /\ calls.analyze = 0
    /\ ErrorShown("Could not extract sufficient text")

\* C3 as stated: the text is rejected exactly when its trimmed length is
\* below 50; a text of 50 or more characters is analysed and cached.
C3_FloorIs50 ==
    uploaded_file # <<>> =>
        /\ Len(strip(ExtractedText)) < 50 => RejectedAsInsufficient
        /\ Len(strip(ExtractedText)) >= 50 => AnalysedAndCached

\* C3 amended: the text is rejected exactly when its trimmed length is at
\* most 50; a text of 51 or more characters is analysed and cached, a text
\* of exactly 50 characters is rejected.
C3_MoreThan50 ==
    uploaded_file # <<>> =>
        /\ Len(strip(ExtractedText)) <= 50 => RejectedAsInsufficient
        /\ Len(strip(ExtractedText)) > 50 => AnalysedAndCached

\* a text of exactly 50 characters was uploaded and rejected
C3_Witness ==
    /\ uploaded_file # <<>>
    /\ Len(strip(ExtractedText)) = 50
    /\ RejectedAsInsufficient

\* the three failures of an upload of f: unsupported type, parse failure,
\* text below the 50-character floor
UploadFails(f) ==
    \/ ~Supported(f)
    \/ f.corrupt
    \/ Len(strip(extraction_of[f].text)) < 50

\* C4: a failing upload is terminal: analyze_resume is not run, no session
\* key is written and the session is exactly as before, an error message
\* is shown, and extraction ran once.
C4_FailureIsTerminal ==
    [][ (uploaded_file' # <<>> /\ UploadFails(uploaded_file'[1])) =>
            /\ session' = session
            /\ calls'.analyze = 0
            /\ calls'.extract = 1
            /\ \E i \in 1..Len(rendered') : rendered'[i].kind = "error"
            /\ \A i \in 1..Len(rendered') : rendered'[i].kind # "success" ]_vars

\* a failing upload in a session that already holds an analysis
C4_Witness ==
    /\ uploaded_file # <<>>
    /\ UploadFails(uploaded_file[1])
    /\ "analysis_results" \in DOMAIN session
    /\ calls = [extract |-> 1, analyze |-> 0]

\* C5 as stated: extraction of a file whose type is neither PDF nor DOCX
\* ends in an error of its own: it displays an error, and its outcome
\* (return value and messages) differs from that of every PDF or DOCX
\* file, readable (also one without text) or not.
C5_UnsupportedIsDistinctError ==
    (uploaded_file # <<>> /\ ~Supported(uploaded_file[1])) =>
        /\ extraction_of[uploaded_file[1]].shown # <<>>
        /\ \A g \in Files :
              Supported(g) => extraction_of[g] # extraction_of[uploaded_file[1]]

\* C6: the cache is written only by an upload that was analysed, which
\* replaces all three keys by the values of that upload; every other run
\* leaves it as it is; the cached analysis is the analysis of the cached text.
C6_Step ==
    IF calls'.analyze = 1
    THEN /\ uploaded_file' # <<>>
         /\ session' =
               [k \in {"resume_text", "analysis_results", "uploaded_file_name"} |->
                   CASE k = "resume_text" -> extraction_of[uploaded_file'[1]].text
                     [] k = "analysis_results" ->
                            analysis_of[extraction_of[uploaded_file'[1]].text]
                     [] k = "uploaded_file_name" -> uploaded_file'[1].name]
    ELSE session' = session

C6_Consistent ==
    \/ session = EmptySession
    \/ /\ DOMAIN session = {"resume_text", "analysis_results", "uploaded_file_name"}
       /\ session["analysis_results"] = analyze_resume(session["resume_text"])
       /\ \E f \in Files :
             /\ Supported(f) /\ ~f.corrupt
             /\ session["resume_text"] = extract_text_from_file(f).text
             /\ session["uploaded_file_name"] = f.name

C6_CacheIsLastAnalysedUpload == []C6_Consistent /\ [][C6_Step]_vars

\* a failed upload of one file while the cache holds the analysis of another
C6_Witness ==
    /\ uploaded_file # <<>>
    /\ calls.analyze = 0
    /\ "uploaded_file_name" \in DOMAIN session
    /\ session["uploaded_file_name"] # uploaded_file[1].name
    /\ session["analysis_results"] = analyze_resume(session["resume_text"])

\* ------------------------------------------------------------------------
\* Properties of analyze_resume (checked under SpecAnalyze)
\* ------------------------------------------------------------------------

\* the session holds the analysis of the text it holds
AnalysisStored == DOMAIN session = {"resume_text", "analysis_results", "uploaded_file_name"}

\* the places of ref whose title-cased entry is x
RefIndex(ref, x) == {j \in 1..Len(ref) : title(ref[j]) = x}

\* found holds only title-cased entries of ref, in ref's order and hence
\* without duplicates
TitledSubsequence(found, ref) ==
    /\ \A i \in 1..Len(found) : RefIndex(ref, found[i]) # {}
    /\ \A i \in 1..Len(found), k \in 1..Len(found) :
          i < k => \A a \in RefIndex(ref, found[i]), b \in RefIndex(ref, found[k]) : a < b

\* C11: found_keywords, found_sections and action_verbs hold no duplicates,
\* only title-cased entries of their own reference list, in that list's
\* order; the text of the six section names yields those six, in order,
\* without Objective and Contact.
C11_FoundListsAreTitledSubsequences ==
    AnalysisStored =>
        LET m == session["analysis_results"]
        IN  /\ TitledSubsequence(m.found_keywords, skills_keywords)
            /\ TitledSubsequence(m.found_sections, sections)
            /\ TitledSubsequence(m.action_verbs, action_verbs)
            /\ session["resume_text"] = SixSectionsText =>
                  /\ Len(m.found_sections) = 6
                  /\ \A i \in 1..6 : m.found_sections[i] = title(sections[i])
                  /\ m.found_sections[1] = <<"E","x","p","e","r","i","e","n","c","e">>

\* the six-section text was analysed
C11_Witness ==
    /\ AnalysisStored
    /\ session["resume_text"] = SixSectionsText
    /\ Len(session["analysis_results"].found_sections) = 6
    /\ sections_score(session["analysis_results"]) = 20

\* int(digits) for a string of decimal digits
RECURSIVE parse_int(_)
parse_int(digits) ==
    IF digits = <<>> THEN 0
    ELSE 10 * parse_int(SubSeq(digits, 1, Len(digits) - 1))
            + (CHOOSE d \in 0..9 : DigitChars[d + 1] = digits[Len(digits)])

\* arg is the decimal numeral of n
Embeds(arg, n) ==
    /\ arg # <<>>
    /\ \A i \in 1..Len(arg) : arg[i] \in Digits
    /\ parse_int(arg) = n

\* C12: the number in the keyword message (either variant) is
\* keyword_count, which is the length of found_keywords; the number in the
\* action-verb message is the length of action_verbs; the score is
\* computed from the same two counts.
C12_MessagesEmbedCounts ==
    /\ TipsShown =>
          LET m == session["analysis_results"]
          IN  /\ m.keyword_count = Len(m.found_keywords)
              /\ Cardinality(ItemsOf(2)) = 1
              /\ Embeds(ItemOf(2).arg, Len(m.found_keywords))
              /\ \A i \in ItemsOf(5) : Embeds(rendered[i].body.arg, Len(m.action_verbs))
    /\ ResultsShown =>
          LET m == session["analysis_results"]
          IN  ShownScore = TableScore([m EXCEPT !.keyword_count = Len(m.found_keywords)])

\* a two-digit keyword count in the positive variant, next to a verb message
C12_Witness ==
    /\ TipsShown
    /\ Len(session["analysis_results"].found_keywords) >= 10
    /\ IsPositive(ItemOf(2))
    /\ Len(ItemOf(2).arg) = 2
    /\ ItemsOf(5) # {}

\* C13: analyze_resume("") yields zero counts, empty lists and no contact
\* flags, and with neutral sentiment its score is exactly 5.
C13_EmptyText ==
    (AnalysisStored /\ session["resume_text"] = <<>>) =>
        LET m == session["analysis_results"]
        IN  /\ m.word_count = 0
            /\ m.char_count = 0
            /\ m.sentence_count = 0
            /\ m.keyword_count = 0
            /\ m.found_keywords = <<>>
            /\ m.found_sections = <<>>
            /\ m.action_verbs = <<>>
            /\ ~m.has_email /\ ~m.has_phone /\ ~m.has_linkedin
            /\ (ResultsShown /\ m.sentiment = 0) => ShownScore = 5

\* the score of the empty text was shown
C13_Witness ==
    /\ ResultsShown
    /\ session["resume_text"] = <<>>
    /\ session["analysis_results"].sentiment = 0
    /\ ShownScore = 5

\* ------------------------------------------------------------------------
\* Properties of extract_text_from_file (checked under SpecExtract)
\* ------------------------------------------------------------------------

\* '\n'.join(texts)
RECURSIVE JoinLines(_)
JoinLines(texts) ==
    IF Len(texts) = 0 THEN <<>>
    ELSE IF Len(texts) = 1 THEN texts[1]
    ELSE texts[1] \o <<"\n">> \o JoinLines(Tail(texts))

NonEmpty(t) == t # <<>>

NonBlank(t) == \E i \in 1..Len(t) : t[i] \notin Whitespace

\* C14 as stated: for a PDF and for a DOCX alike, the result is the texts
\* of the non-empty parts, in order, joined by single newlines and trimmed.
C14_NonEmptyPartsJoined ==
    uploaded_file # <<>> =>
        local_text[1] = strip(JoinLines(SelectSeq(uploaded_file[1].parts, NonEmpty)))

\* C14 amended: for a PDF the pages that count are those whose text is
\* non-empty, for a DOCX the paragraphs that hold a non-whitespace
\* character; the result is their texts, in order, joined by single
\* newlines and trimmed.
C14_CountedPartsJoined ==
    uploaded_file # <<>> =>
        LET f == uploaded_file[1]
        IN  /\ f.type = PDF =>
                  local_text[1] = strip(JoinLines(SelectSeq(f.parts, NonEmpty)))
            /\ f.type = DOCX =>
                  local_text[1] = strip(JoinLines(SelectSeq(f.parts, NonBlank)))

\* a DOCX whose whitespace-only paragraph lies between two paragraphs with
\* text: the paragraph leaves no line
C14_Witness ==
    /\ uploaded_file # <<>>
    /\ uploaded_file[1].type = DOCX
    /\ uploaded_file[1].parts = << <<"a">>, <<" ">>, <<" ", "b", " ">> >>
    /\ local_text = << <<"a", "\n", " ", "b">> >>

\* ------------------------------------------------------------------------
\* Properties of the session keys (checked under Spec)
\* ------------------------------------------------------------------------

SessionKeys == {"resume_text", "analysis_results", "uploaded_file_name"}

UploadFirstWarning == << element("warning", "Please upload your resume first") >>

\* the keys are all absent or all present; the two result pages show the
\* score or the recommendations when an analysis is cached and the
\* upload-first warning otherwise; the Results page finds resume_text
C15_KeysAndPages ==
    /\ DOMAIN session \in {{}, SessionKeys}
    /\ \A i \in 1..Len(rendered) : rendered[i].kind # "exception"
    /\ app_mode = "Analysis Results" =>
          IF "analysis_results" \in DOMAIN session
          THEN /\ Len(rendered) = 1 /\ rendered[1].kind = "score"
               /\ "resume_text" \in DOMAIN session
               /\ local_text = << session["resume_text"] >>
          ELSE rendered = UploadFirstWarning
    /\ app_mode = "Tips & Suggestions" =>
          IF "analysis_results" \in DOMAIN session
          THEN /\ Len(rendered) >= 1
               /\ \A i \in 1..Len(rendered) : rendered[i].kind = "markdown"
          ELSE rendered = UploadFirstWarning

\* the session changes only in an upload run whose file was read and whose
\* text passed the length check; the other pages leave it as it is
C15_Step ==
    /\ session' # session =>
          /\ app_mode' = "Upload Resume"
          /\ uploaded_file' # <<>>
          /\ Supported(uploaded_file'[1])
          /\ ~uploaded_file'[1].corrupt
          /\ Len(strip(local_text'[1])) > 50
    /\ app_mode' # "Upload Resume" => session' = session

\* C15: the three session keys are all absent or all present, and present
\* only after an upload passed extraction and the length check; the
\* Analysis Results and Tips pages compute only from a cached analysis and
\* warn otherwise; the Results page never reads a missing resume_text;
\* pages other than Upload leave the cache unchanged.
C15_CacheKeysTogether == []C15_KeysAndPages /\ [][C15_Step]_vars

\* the Analysis Results page read the cached text and showed a score
C15_Witness ==
    /\ app_mode = "Analysis Results"
    /\ DOMAIN session = SessionKeys
    /\ local_text = << session["resume_text"] >>
    /\ rendered[1].kind = "score"

====
